---- MODULE Spec2Model ----
(***************************************************************************)
(* Model of the real-time sensor/command relay (server.cjs): one WebSocket *)
(* server between ESP32 producers and dashboard consumers.  Every handler  *)
(* (connection, message, pong, close, heartbeat timer) is one action that  *)
(* runs to completion, as on the single Node.js event loop.                *)
(*                                                                         *)
(* The handlers are the same in every specification; the specifications    *)
(* differ in the traffic the clients produce:                              *)
(*   Spec     registrations and telemetry, every ping answered;            *)
(*   CmdSpec  registrations and commands, every ping answered;             *)
(*   HbSpec   registrations and telemetry, pings possibly unanswered;       *)
(*   RegSpec  registrations that carry ids;                                *)
(*   KillSpec registrations and commands, pings possibly unanswered;       *)
(*   HookSpec the frames the dashboard hook (useSmartFarmData.ts) sends.   *)
(* BridgeSpec runs the other server of the repository instead, the serial  *)
(* bridge (server.js): it listens on the same port, so a run has one of    *)
(* the two servers, and the connection variables are those of the server   *)
(* that runs.                                                              *)
(* The variables marked "history" record what the handlers did; no         *)
(* handler reads them.                                                     *)
(***************************************************************************)
EXTENDS Integers, Sequences, FiniteSets, TLC

\* ---------------------------------------------------------------- bounds
NumConns == 3          \* connections the server accepts during a run
RegConns == 2          \* connections accepted in the runs that supply ids
CooldownTicks == 2     \* heartbeat ticks after which >= 30 s have surely passed
MaxPosts == 2          \* POSTs to the backend that may be unsettled at once
MaxData == 3           \* lines the bridge accepts from the Arduino during a run

Conns == 1..NumConns

\* ------------------------------------------------------- JavaScript values
Undef == "undefined"   \* a property the JSON object does not carry
Null == "null"         \* the JavaScript null
NoConn == 0            \* espSocket === null

\* A parsed JSON object, with every property the relay reads or writes.
Obj(type, role, id, cmd, value, data, message) ==
    [type |-> type, role |-> role, id |-> id, cmd |-> cmd, value |-> value,
     data |-> data, message |-> message, pump_cmd |-> Undef]

RegisterMsg(r, i) == Obj("register", r, i, Undef, Undef, Undef, Undef)
SensorsMsg(d) == Obj("sensors", Undef, Undef, Undef, Undef, d, Undef)
CmdMsg(c, v) == Obj("cmd", Undef, Undef, c, v, Undef, Undef)
StatusMsg == Obj("status", Undef, Undef, Undef, Undef, "boot", Undef)
AckMsg(r) == Obj("ack", r, Undef, Undef, Undef, Undef, Undef)
ErrorMsg == Obj("error", Undef, Undef, Undef, Undef, Undef, "ESP not connected")


\* The value msg keeps when JSON.parse throws: null.  Every property test
\* the relay makes has the shape (msg && msg.p === 'literal'), which is false
\* for null, so null is the object none of whose properties equals a literal.
NullMsg == Obj(Null, Null, Null, Null, Null, Null, Null)

\* A text frame: the JSON value it encodes (NullMsg when it is not JSON) and
\* its layout, since equal objects have several encodings.
Frame(json, fmt) == [json |-> json, fmt |-> fmt]
NotJSON == Frame(NullMsg, "raw")
Compact(objs) == {Frame(o, "compact") : o \in objs}

\* The frames clients send, by kind of traffic.  Registrations without an id:
RegisterFrames == Compact({RegisterMsg(r, Undef) : r \in {"esp", "dashboard"}})
\* registrations that carry an id property (one of them the empty string):
IdFrames == Compact({RegisterMsg(r, i) : r \in {"esp", "dashboard"}, i \in {"", "dev7"}})
\* telemetry, an object of an unknown type, a registration with an unknown
\* role, and text that is not JSON:
TelemetryFrames ==
    Compact({SensorsMsg("s1"), SensorsMsg("s2"), StatusMsg, RegisterMsg("admin", Undef)})
    \cup {Frame(SensorsMsg("s1"), "spaced"), NotJSON}
\* commands sent while pings may go unanswered (one of them with value null):
KillFrames == Compact({CmdMsg("pump", "ON"), CmdMsg("pump", Null), CmdMsg("valve", "ON")})
\* commands:
CommandFrames ==
    Compact({CmdMsg("pump", "ON"), CmdMsg("pump", "OFF"), CmdMsg("valve", "ON")})
    \cup {Frame(CmdMsg("pump", "ON"), "spaced")}

\* What the dashboard hook (useSmartFarmData) sends: its registration on
\* open, and the frame of its exported sendPump, { pump_cmd: command }.
HookRegister == RegisterMsg("dashboard", "dashboard1")
SendPumpCommand(command) ==
    [Obj(Undef, Undef, Undef, Undef, Undef, Undef, Undef) EXCEPT !.pump_cmd = command]
HookFrames ==
    Compact({RegisterMsg("esp", Undef), HookRegister,
             SendPumpCommand("ON"), SendPumpCommand("OFF"), CmdMsg("pump", "ON")})

\* try { msg = JSON.parse(text) } catch (e) {}  -- msg stays null on failure
JSONparse(text) == text.json
\* JSON.stringify(obj) always produces the compact layout
JSONstringify(obj) == Frame(obj, "compact")

\* An id that is always replaced by the default.
OrDefaultAlways(v, dflt) == dflt

\* msg.id || dflt
OrDefault(v, dflt) == IF v \in {Undef, ""} THEN dflt ELSE v
\* 'dash-' + (Math.random()*1000|0)
GeneratedIds == {"dash-0", "dash-999"}
\* the values Math.random() takes in a run whose clients send no id
QuietIds == {"dash-417"}

\* ------------------------------------------------- the bridge's values
\* A line the Arduino writes to the serial port: the JSON value it encodes
\* (NullMsg when it is not JSON) and its layout; "blank" is a line of
\* white space only.  One object carries a timestamp field of its own.
ArduinoLines ==
    {Frame([soil |-> "a"], "compact"),
     Frame([soil |-> "b", timestamp |-> "t0"], "padded"),
     Frame(NullMsg, "raw"),
     Frame(NullMsg, "blank")}
\* the instants new Date() and Date.now() return
Clock == {"t1", "t2"}

\* { ...a, ...b }: the properties of a, then those of b over them
Spread(a, b) ==
    [f \in DOMAIN a \cup DOMAIN b |-> IF f \in DOMAIN b THEN b[f] ELSE a[f]]

\* The metadata under the Arduino's own properties.
EnhanceUnder(arduinoData, now, count) ==
    Spread([timestamp |-> now, server_time |-> now, data_count |-> count], arduinoData)

\* { ...arduinoData, timestamp: ..., server_time: ..., data_count: ... }
Enhance(arduinoData, now, count) ==
    Spread(arduinoData, [timestamp |-> now, server_time |-> now, data_count |-> count])

\* latestData === null, as the object without a count
NoData == [data_count |-> 0]
\* { type: 'ping' } from a client, and the reply to it
PingMsg == [type |-> "ping"]
PongMsg(now) == [type |-> "pong", timestamp |-> now]
ClientFrames == {Frame(PingMsg, "compact"), Frame([type |-> "hello"], "compact"), NotJSON}

\* --------------------------------------------------------------- state
VARIABLES
    readyState,       \* per ws: "none" (not yet accepted), "open", "closing", "closed"
    role,             \* ws.role
    id,               \* ws.id
    isAlive,          \* ws.isAlive
    espSocket,        \* the current ESP connection, or NoConn
    dashboards,       \* the Set of dashboard connections
    lastPumpCommand,  \* value of the last pump command that passed the check
    ev,               \* history: the event handled by the last step
    out,              \* history: per ws, the frames the last step sent to it
    lastFwd,          \* history: value of the pump command last sent to the ESP
    idleTicks,        \* history: heartbeat ticks since that send (saturating)
    lastCmd,          \* history: the last pump command a dashboard sent
    lastState,        \* history: the last telemetry frame a producer sent
    inflight,         \* fetch() calls of logSensorData that have not settled
    pinged,           \* history: connections pinged at the last tick, no pong since
    latestData,       \* bridge: the last enhanced object, or Null
    dataCount,        \* bridge: lines accepted so far
    connectedClients, \* bridge: connections minus closes
    rx                \* history: per ws, the data_count of each frame sent to it

vars == <<readyState, role, id, isAlive, espSocket, dashboards, lastPumpCommand,
          ev, out, lastFwd, idleTicks, lastCmd, lastState, inflight, pinged,
          latestData, dataCount, connectedClients, rx>>

relay == <<espSocket, dashboards, lastPumpCommand>>
hist == <<lastFwd, idleTicks, lastCmd, lastState>>
cmds == <<lastFwd, idleTicks, lastCmd>>
bridge == <<latestData, dataCount, connectedClients, rx>>

NoOut == [c \in Conns |-> <<>>]
\* An event: its kind, the connection it is for, the frame it carries, the
\* role that connection had when it arrived, and the open connections it
\* terminated.
Event(kind, ws, text, from, killed) ==
    [kind |-> kind, ws |-> ws, text |-> text, from |-> from, killed |-> killed]
\* A pump command as it was handled: its value, the value of the pump command
\* before it, whether the ESP was writable, whether the value equalled
\* lastPumpCommand, and whether it was handed to the ESP.
Handled(value, prev, esp, dup, forwarded) ==
    [value |-> value, prev |-> prev, esp |-> esp, dup |-> dup, forwarded |-> forwarded]
NoCmd == Handled(Null, Null, FALSE, FALSE, FALSE)

\* wss.clients: accepted and 'close' not yet emitted
Clients == {c \in Conns : readyState[c] \in {"open", "closing"}}

Init ==
    /\ readyState = [c \in Conns |-> "none"]
    /\ role = [c \in Conns |-> Undef]
    /\ id = [c \in Conns |-> Undef]
    /\ isAlive = [c \in Conns |-> TRUE]
    /\ espSocket = NoConn
    /\ dashboards = {}
    /\ lastPumpCommand = Null
    /\ ev = Event("start", NoConn, NotJSON, Undef, {})
    /\ out = NoOut
    /\ lastFwd = Null
    /\ idleTicks = CooldownTicks
    /\ lastCmd = NoCmd
    /\ lastState = NotJSON
    /\ inflight = 0
    /\ pinged = {}
    /\ latestData = NoData
    /\ dataCount = 0
    /\ connectedClients = 0
    /\ rx = [c \in Conns |-> <<>>]

\* ------------------------------------------------------------- actions
\* wss.on('connection'): connection objects are numbered in accept order.
Connect(ws) ==
    /\ readyState[ws] = "none"
    /\ \A c \in Conns : c < ws => readyState[c] # "none"
    /\ readyState' = [readyState EXCEPT ![ws] = "open"]
    /\ isAlive' = [isAlive EXCEPT ![ws] = TRUE]
    /\ ev' = Event("connection", ws, NotJSON, role[ws], {})
    /\ out' = NoOut
    /\ UNCHANGED <<role, id, relay, hist, inflight, pinged, bridge>>

\* ws.send(frame) as the frames handed to each connection by one handler run
Send(ws, frame) == [c \in Conns |-> IF c = ws THEN <<frame>> ELSE <<>>]

\* if (msg.role === 'esp') { espSocket = ws; ws.role = 'esp'; ws.id = ...; ack }
RegisterEsp(ws, msg) ==
    /\ espSocket' = ws
    /\ role' = [role EXCEPT ![ws] = "esp"]
    /\ id' = [id EXCEPT ![ws] = OrDefault(msg.id, "esp1")]
    /\ out' = Send(ws, JSONstringify(AckMsg("esp")))
    /\ UNCHANGED <<dashboards, lastPumpCommand, hist, inflight>>

\* else if (msg.role === 'dashboard') { ws.role = ...; dashboards.add(ws); ack }
\* rnd is the id built from Math.random()
RegisterDashboard(ws, msg, rnd) ==
    /\ role' = [role EXCEPT ![ws] = "dashboard"]
    /\ id' = [id EXCEPT ![ws] = OrDefault(msg.id, rnd)]
    /\ dashboards' = dashboards \cup {ws}
    /\ out' = Send(ws, JSONstringify(AckMsg("dashboard")))
    /\ UNCHANGED <<espSocket, lastPumpCommand, hist, inflight>>

\* A broadcast that sends every dashboard two copies.
BroadcastTwice(text) ==
    [c \in Conns |-> IF c \in dashboards /\ readyState[c] = "open"
                      THEN <<text, text>> ELSE <<>>]

\* A broadcast that waits while a POST to the backend is unsettled.
BroadcastWhenIdle(text) ==
    [c \in Conns |-> IF c \in dashboards /\ readyState[c] = "open" /\ inflight = 0
                      THEN <<text>> ELSE <<>>]

\* A broadcast that stops after the first dashboard.
BroadcastToFirst(text) ==
    [c \in Conns |-> IF c \in dashboards /\ readyState[c] = "open"
                         /\ \A d \in dashboards : d >= c
                      THEN <<text>> ELSE <<>>]

\* dashboards.forEach(d => { if (d.readyState === WebSocket.OPEN) d.send(text) })
Broadcast(text) ==
    [c \in Conns |-> IF c \in dashboards /\ readyState[c] = "open"
                      THEN <<text>> ELSE <<>>]

\* logSensorData(msg) up to its await: fetch() is called and the handler goes
\* on without waiting; what the call does to msg (a timestamp is added) stays
\* in the parsed object, which is not sent anywhere else.
LogSensorData(msg) ==
    /\ inflight < MaxPosts
    /\ inflight' = inflight + 1

\* if (ws.role === 'esp') { if (sensors) logSensorData(msg); broadcast; return }
FromEsp(ws, text) ==
    /\ IF JSONparse(text).type = "sensors"
       THEN LogSensorData(JSONparse(text))
       ELSE UNCHANGED inflight
    /\ out' = Broadcast(text)
    /\ lastState' = IF JSONparse(text).type = "sensors" THEN text ELSE lastState
    /\ UNCHANGED <<role, id, relay, cmds>>

\* A test that takes a command for any actuator.
IsAnyCmd(msg) == msg.type = "cmd"

\* msg && msg.type === 'cmd' && msg.cmd === 'pump'
IsPumpCmd(msg) == msg.type = "cmd" /\ msg.cmd = "pump"
\* A duplicate check that lets a repeated value through after the cooldown.
ChangedOrCooled(msg) == msg.value # lastPumpCommand \/ idleTicks >= CooldownTicks
\* No duplicate check at all.
ChangedAlways(msg) == TRUE

\* msg.value !== lastPumpCommand
Changed(msg) == msg.value # lastPumpCommand
\* espSocket && espSocket.readyState === WebSocket.OPEN
EspWritable == espSocket # NoConn /\ readyState[espSocket] = "open"

\* A handler that forgets to record the command.
KeepLastPumpCommand(msg) == lastPumpCommand

\* the value lastPumpCommand holds after a dashboard message
NextLastPumpCommand(msg) ==
    IF IsPumpCmd(msg) /\ Changed(msg) THEN msg.value ELSE lastPumpCommand

\* what a dashboard message makes the relay send
CmdSends(ws, msg) ==
    IF IsPumpCmd(msg) /\ Changed(msg)
    THEN IF EspWritable THEN Send(espSocket, JSONstringify(msg))
                        ELSE Send(ws, JSONstringify(ErrorMsg))
    ELSE NoOut

\* the frames of a handler run that hand a pump command to the current ESP
Forwarded(sends) ==
    /\ espSocket # NoConn
    /\ \E i \in DOMAIN sends[espSocket] : IsPumpCmd(JSONparse(sends[espSocket][i]))

Min(a, b) == IF a < b THEN a ELSE b

\* if (ws.role === 'dashboard') { ...pump command handling...; return }
FromDashboard(ws, msg) ==
    LET sends == CmdSends(ws, msg)
        fwd == Forwarded(sends)
    IN  /\ lastPumpCommand' = NextLastPumpCommand(msg)
        /\ out' = sends
        /\ lastFwd' = IF fwd THEN msg.value ELSE lastFwd
        /\ idleTicks' = IF fwd THEN 0 ELSE idleTicks
        /\ lastCmd' = IF IsPumpCmd(msg)
                      THEN Handled(msg.value, lastCmd.value, EspWritable, ~Changed(msg), fwd)
                      ELSE lastCmd
        /\ UNCHANGED <<role, id, espSocket, dashboards, lastState, inflight>>

\* An unknown client whose sensors message is ignored.
FromUnknownIgnores(ws, msg) ==
    /\ out' = NoOut
    /\ UNCHANGED <<espSocket, role, id, dashboards, lastPumpCommand, hist, inflight>>

\* An unknown client whose sensors message is broadcast as a producer's is.
FromUnknownBroadcasts(ws, msg) ==
    /\ IF msg.type = "sensors"
       THEN espSocket' = ws /\ role' = [role EXCEPT ![ws] = "esp"]
       ELSE UNCHANGED <<espSocket, role>>
    /\ out' = [c \in Conns |-> IF msg.type = "sensors" /\ c \in dashboards
                                   /\ readyState[c] = "open"
                                THEN <<JSONstringify(msg)>> ELSE <<>>]
    /\ UNCHANGED <<id, dashboards, lastPumpCommand, hist, inflight>>

\* unknown client: if (msg && msg.type === 'sensors') { espSocket = ws; ws.role = 'esp' }
FromUnknown(ws, msg) ==
    /\ IF msg.type = "sensors"
       THEN espSocket' = ws /\ role' = [role EXCEPT ![ws] = "esp"]
       ELSE UNCHANGED <<espSocket, role>>
    /\ out' = NoOut
    /\ UNCHANGED <<id, dashboards, lastPumpCommand, hist, inflight>>

\* ws.on('message', data => {...})
OnMessage(ws, text, rnd) ==
    LET msg == JSONparse(text)
        registers == msg.type = "register" /\ msg.role \in {"esp", "dashboard"}
    IN  /\ readyState[ws] = "open"
        /\ ev' = Event("message", ws, text, role[ws], {})
        /\ UNCHANGED <<readyState, isAlive, pinged, bridge>>
        /\ \/ msg.type = "register" /\ msg.role = "esp" /\ RegisterEsp(ws, msg)
           \/ msg.type = "register" /\ msg.role = "dashboard" /\ RegisterDashboard(ws, msg, rnd)
           \/ ~registers /\ role[ws] = "esp" /\ FromEsp(ws, text)
           \/ ~registers /\ role[ws] = "dashboard" /\ FromDashboard(ws, msg)
           \/ ~registers /\ role[ws] = Undef /\ FromUnknown(ws, msg)

\* ws.on('pong', () => { ws.isAlive = true })
OnPong(ws) ==
    /\ readyState[ws] = "open"
    /\ isAlive' = [isAlive EXCEPT ![ws] = TRUE]
    /\ pinged' = pinged \ {ws}
    /\ ev' = Event("pong", ws, NotJSON, role[ws], {})
    /\ out' = NoOut
    /\ UNCHANGED <<readyState, role, id, relay, hist, inflight, bridge>>

\* The peer closes or the network drops: readyState leaves OPEN before the
\* 'close' event is emitted.
Disconnect(ws) ==
    /\ readyState[ws] = "open"
    /\ readyState' = [readyState EXCEPT ![ws] = "closing"]
    /\ ev' = Event("disconnect", ws, NotJSON, role[ws], {})
    /\ out' = NoOut
    /\ UNCHANGED <<role, id, isAlive, relay, hist, inflight, pinged, bridge>>

\* A close handler that forgets the last pump command with the producer.
OnCloseClears(ws) ==
    /\ readyState[ws] = "closing"
    /\ readyState' = [readyState EXCEPT ![ws] = "closed"]
    /\ espSocket' = IF role[ws] = "esp" /\ espSocket = ws THEN NoConn ELSE espSocket
    /\ lastPumpCommand' = IF role[ws] = "esp" THEN Null ELSE lastPumpCommand
    /\ dashboards' = IF role[ws] = "dashboard" THEN dashboards \ {ws} ELSE dashboards
    /\ role' = [role EXCEPT ![ws] = Undef]
    /\ id' = [id EXCEPT ![ws] = Undef]
    /\ isAlive' = [isAlive EXCEPT ![ws] = TRUE]
    /\ pinged' = pinged \ {ws}
    /\ ev' = Event("close", ws, NotJSON, role[ws], {})
    /\ out' = NoOut
    /\ UNCHANGED <<hist, inflight, bridge>>

\* ws.on('close', () => {...}).  No handler of ws runs after this one and
\* nothing reads its properties again, so the object's properties are dropped
\* with it; the references the relay may still hold (espSocket, dashboards)
\* are kept exactly as the handler leaves them.
OnClose(ws) ==
    /\ readyState[ws] = "closing"
    /\ readyState' = [readyState EXCEPT ![ws] = "closed"]
    /\ espSocket' = IF role[ws] = "esp" /\ espSocket = ws THEN NoConn ELSE espSocket
    /\ dashboards' = IF role[ws] = "dashboard" THEN dashboards \ {ws} ELSE dashboards
    /\ role' = [role EXCEPT ![ws] = Undef]
    /\ id' = [id EXCEPT ![ws] = Undef]
    /\ isAlive' = [isAlive EXCEPT ![ws] = TRUE]
    /\ pinged' = pinged \ {ws}
    /\ ev' = Event("close", ws, NotJSON, role[ws], {})
    /\ out' = NoOut
    /\ UNCHANGED <<lastPumpCommand, hist, inflight, bridge>>

\* A monitor that terminates every client at every tick.
TerminatedEveryone == Clients

\* A monitor that terminates nobody.
TerminatedNobody == {}

\* if (!ws.isAlive) return ws.terminate()
Terminated == {c \in Clients : ~isAlive[c]}

\* setInterval(() => wss.clients.forEach(ws => {...}), 30000)
Heartbeat ==
    /\ readyState' = [c \in Conns |-> IF c \in Terminated THEN "closing" ELSE readyState[c]]
    /\ isAlive' = [c \in Conns |-> IF c \in Clients \ Terminated THEN FALSE ELSE isAlive[c]]
    /\ idleTicks' = Min(idleTicks + 1, CooldownTicks)
    /\ pinged' = {c \in Clients \ Terminated : readyState[c] = "open"}
    /\ ev' = Event("heartbeat", NoConn, NotJSON, Undef,
                   {c \in Terminated : readyState[c] = "open"})
    /\ out' = NoOut
    /\ UNCHANGED <<role, id, relay, lastFwd, lastCmd, lastState, inflight, bridge>>

\* A heartbeat tick whose pings every client answers before anything else
\* happens: Heartbeat, then OnPong for every pinged client.  Nobody is
\* terminated and every isAlive is true again.
AnsweredHeartbeat ==
    /\ Terminated = {}
    /\ idleTicks' = Min(idleTicks + 1, CooldownTicks)
    /\ ev' = Event("heartbeat", NoConn, NotJSON, Undef, {})
    /\ out' = NoOut
    /\ UNCHANGED <<readyState, isAlive, role, id, relay, lastFwd, lastCmd, lastState,
                   inflight, pinged, bridge>>

\* A forwarder that issues the POST again when the request fails.
FetchRetried(outcome) ==
    /\ inflight > 0
    /\ inflight' = IF outcome = "fetch error" THEN inflight ELSE inflight - 1
    /\ ev' = Event(outcome, NoConn, NotJSON, Undef, {})
    /\ out' = NoOut
    /\ UNCHANGED <<readyState, isAlive, role, id, relay, hist, pinged, bridge>>

\* The backend answers a POST, or the request fails: the rest of
\* logSensorData runs (response.ok, !response.ok, or the catch block), which
\* only writes to the console.  A POST that never completes is one for which
\* this step never happens.
FetchSettled(outcome) ==
    /\ inflight > 0
    /\ inflight' = inflight - 1
    /\ ev' = Event(outcome, NoConn, NotJSON, Undef, {})
    /\ out' = NoOut
    /\ UNCHANGED <<readyState, isAlive, role, id, relay, hist, pinged, bridge>>

FetchOutcomes == {"fetch ok", "fetch not ok", "fetch error"}

\* ---------------------------------------------------- the bridge's actions
\* The count of a line that does not advance.
SameDataCount == dataCount

\* ++dataCount
NextDataCount == dataCount + 1

\* function broadcast(data): one string to every OPEN client
BridgeBroadcast(data) ==
    [c \in Conns |-> IF readyState[c] = "open" THEN <<JSONstringify(data)>> ELSE <<>>]

\* what c has received once a step has sent it the frames sends[c]
Received(sends, c) ==
    rx[c] \o [i \in DOMAIN sends[c] |-> JSONparse(sends[c][i]).data_count]

\* parser.on('data', handleArduinoData): one line from the serial port
HandleArduinoData(line, now) ==
    /\ dataCount < MaxData
    /\ ev' = Event("line", NoConn, line, Undef, {})
    /\ IF line.fmt \in {"blank", "raw"}
       THEN /\ out' = NoOut
            /\ UNCHANGED <<latestData, dataCount, rx>>
       ELSE LET enhancedData == Enhance(JSONparse(line), now, NextDataCount)
                sends == BridgeBroadcast(enhancedData)
            IN  /\ dataCount' = NextDataCount
                /\ latestData' = enhancedData
                /\ out' = sends
                /\ rx' = [c \in Conns |-> Received(sends, c)]
    /\ UNCHANGED <<readyState, isAlive, role, id, relay, hist, inflight, pinged,
                   connectedClients>>

\* wss.on('connection'): count the client and send it latestData, if any
BridgeConnect(ws) ==
    LET sends == IF latestData # NoData THEN Send(ws, JSONstringify(latestData))
                                        ELSE NoOut
    IN  /\ readyState[ws] = "none"
        /\ \A c \in Conns : c < ws => readyState[c] # "none"
        /\ readyState' = [readyState EXCEPT ![ws] = "open"]
        /\ connectedClients' = connectedClients + 1
        /\ out' = sends
        /\ rx' = [rx EXCEPT ![ws] = Received(sends, ws)]
        /\ ev' = Event("connection", ws, NotJSON, Undef, {})
        /\ UNCHANGED <<isAlive, role, id, relay, hist, inflight, pinged,
                       latestData, dataCount>>

\* ws.on('message'): a ping is answered with a pong, anything else is logged
BridgeOnMessage(ws, text, now) ==
    /\ readyState[ws] = "open"
    /\ out' = IF text.fmt # "raw" /\ JSONparse(text).type = "ping"
              THEN Send(ws, JSONstringify(PongMsg(now)))
              ELSE NoOut
    /\ ev' = Event("message", ws, text, Undef, {})
    /\ UNCHANGED <<readyState, isAlive, role, id, relay, hist, inflight, pinged, bridge>>

\* A close handler that drops latestData with the client.
BridgeOnCloseClears(ws) ==
    /\ readyState[ws] = "closing"
    /\ readyState' = [readyState EXCEPT ![ws] = "closed"]
    /\ connectedClients' = connectedClients - 1
    /\ latestData' = NoData
    /\ ev' = Event("close", ws, NotJSON, Undef, {})
    /\ out' = NoOut
    /\ UNCHANGED <<isAlive, role, id, relay, hist, inflight, pinged, dataCount, rx>>

\* ws.on('close')
BridgeOnClose(ws) ==
    /\ readyState[ws] = "closing"
    /\ readyState' = [readyState EXCEPT ![ws] = "closed"]
    /\ connectedClients' = connectedClients - 1
    /\ ev' = Event("close", ws, NotJSON, Undef, {})
    /\ out' = NoOut
    /\ UNCHANGED <<isAlive, role, id, relay, hist, inflight, pinged,
                   latestData, dataCount, rx>>

\* The handlers of the connections in conns, for clients that send the frames
\* in frames, Math.random() drawing from ids.
Handlers(conns, frames, ids) ==
    \/ \E ws \in conns : Connect(ws)
    \/ \E ws \in conns, text \in frames, rnd \in ids : OnMessage(ws, text, rnd)
    \/ \E ws \in conns : Disconnect(ws)
    \/ \E ws \in conns : OnClose(ws)

\* Telemetry traffic: clients register, producers send telemetry, every
\* client answers its pings.
Next ==
    \/ Handlers(Conns, RegisterFrames \cup TelemetryFrames, QuietIds)
    \/ AnsweredHeartbeat
    \/ \E outcome \in FetchOutcomes : FetchSettled(outcome)
Spec == Init /\ [][Next]_vars

\* Command traffic: clients register and dashboards send commands.
CmdNext == Handlers(Conns, RegisterFrames \cup CommandFrames, QuietIds) \/ AnsweredHeartbeat
CmdSpec == Init /\ [][CmdNext]_vars

\* Liveness monitoring: clients may leave pings unanswered.
HbNext ==
    \/ Handlers(Conns, RegisterFrames \cup {Frame(StatusMsg, "compact")}, QuietIds)
    \/ \E ws \in Conns : OnPong(ws)
    \/ Heartbeat
HbSpec == Init /\ [][HbNext]_vars

\* Registration with ids: clients supply ids, Math.random() varies.
RegNext == Handlers(1..RegConns, RegisterFrames \cup IdFrames, GeneratedIds)
RegSpec == Init /\ [][RegNext]_vars

\* Liveness monitoring with commands: dashboards send pump commands while
\* clients may leave pings unanswered.
KillNext ==
    \/ Handlers(1..RegConns, RegisterFrames \cup KillFrames, QuietIds)
    \/ \E ws \in 1..RegConns : OnPong(ws)
    \/ Heartbeat
KillSpec == Init /\ [][KillNext]_vars

\* The dashboard hook as client: connections register as the hook does and
\* send the frames of its sendPump.
HookNext == Handlers(1..RegConns, HookFrames, QuietIds) \/ AnsweredHeartbeat
HookSpec == Init /\ [][HookNext]_vars

\* The serial bridge: the Arduino writes lines, clients connect, send frames
\* and leave.
BridgeNext ==
    \/ \E line \in ArduinoLines, now \in Clock : HandleArduinoData(line, now)
    \/ \E ws \in Conns : BridgeConnect(ws)
    \/ \E ws \in Conns, text \in ClientFrames, now \in Clock : BridgeOnMessage(ws, text, now)
    \/ \E ws \in Conns : Disconnect(ws)
    \/ \E ws \in Conns : BridgeOnClose(ws)
BridgeSpec == Init /\ [][BridgeNext]_vars

TypeOK ==
    /\ readyState \in [Conns -> {"none", "open", "closing", "closed"}]
    /\ role \in [Conns -> {Undef, "esp", "dashboard"}]
    /\ isAlive \in [Conns -> BOOLEAN]
    /\ espSocket \in Conns \cup {NoConn}
    /\ dashboards \subseteq Conns
    /\ lastPumpCommand \in {Null, "ON", "OFF"}
    /\ idleTicks \in 0..CooldownTicks
    /\ inflight \in 0..MaxPosts
    /\ pinged \subseteq Conns
    /\ dataCount \in 0..MaxData
    /\ connectedClients \in 0..NumConns
    /\ \A c \in Conns : rx[c] \in Seq(1..MaxData)

\* ------------------------------------------------------------ properties
Open(c) == readyState[c] = "open"
Producers == {c \in Conns : Open(c) /\ role[c] = "esp"}
Consumers == {c \in Conns : Open(c) /\ role[c] = "dashboard"}
Msg == JSONparse(ev.text)
Registers == Msg.type = "register" /\ Msg.role \in {"esp", "dashboard"}

\* C1: in every reachable state at most one open connection has ws.role
\* 'esp'; a second registration as producer takes the role from the first.
C1_SingleProducer == Cardinality(Producers) <= 1

\* C2: lastPumpCommand always equals the value of the pump command most
\* recently handed to the ESP (null while none has been), never a value that
\* was dropped or answered with an error.
C2_LastCommandIsLastForwarded == lastPumpCommand = lastFwd

\* A message that is not a registration has just arrived from a connection
\* whose role was 'esp'.
TelemetryArrived == ev.kind = "message" /\ ev.from = "esp" /\ ~Registers

\* C3: when a message arrives from a producer, every open connection whose
\* role is 'dashboard' is sent exactly one frame, the frame that arrived, so
\* all consumers hold identical copies.
C3_FanOutComplete ==
    TelemetryArrived => \A c \in Consumers : out[c] = <<ev.text>>

\* Two consumers have just received the same telemetry frame.
C3_Witness ==
    /\ TelemetryArrived
    /\ Msg.type = "sensors"
    /\ \E c, d \in Consumers : c # d /\ out[c] = <<ev.text>> /\ out[d] = <<ev.text>>

\* A connection has just registered as dashboard after telemetry went out.
LateConsumer ==
    /\ ev.kind = "message" /\ Msg.type = "register" /\ Msg.role = "dashboard"
    /\ ev.from = Undef
    /\ lastState # NotJSON

Count(seq, x) == Cardinality({i \in DOMAIN seq : seq[i] = x})

\* C4: a consumer that registers after telemetry frame M went out is sent M
\* exactly once on registering, as a catch-up copy.
C4_CatchUpOnce == LateConsumer => Count(out[ev.ws], lastState) = 1

\* A dashboard's pump command is being handled by this step; Cmd is the command.
Cmd == JSONparse(ev'.text)
PumpArrives == ev'.kind = "message" /\ ev'.from = "dashboard" /\ IsPumpCmd(Cmd)
\* This step hands a pump command to the ESP.
ForwardsNow == EspWritable /\ out'[espSocket] = <<JSONstringify(Cmd)>>
\* This step sends nothing and keeps lastPumpCommand.
DropsNow == out' = NoOut /\ lastPumpCommand' = lastPumpCommand

\* The pump command before this one had the same value, a producer was
\* connected for both, and no heartbeat tick has fired since the last forward.
SameValueTwice ==
    /\ PumpArrives /\ lastCmd.value = Cmd.value
    /\ lastCmd.esp /\ EspWritable

\* C5 as stated: of two same-valued pump commands that arrive one after the
\* other within the cooldown window with a producer connected, exactly one is
\* forwarded, and the second is dropped.
C5_ExactlyOneForwarded ==
    [][SameValueTwice /\ idleTicks = 0 => lastCmd.forwarded /\ ~ForwardsNow /\ DropsNow]_vars

\* C5 amended: of two such commands the second is always dropped (nothing is
\* sent, lastPumpCommand stays), and the first was forwarded exactly when its
\* value differed from lastPumpCommand on arrival, so at most one is forwarded.
C5_SecondDropped ==
    [][SameValueTwice => ~ForwardsNow /\ DropsNow /\ (lastCmd.forwarded <=> ~lastCmd.dup)]_vars

\* The second of two same-valued pump commands has just been dropped, the
\* first having been forwarded to the producer.
C5_Witness ==
    /\ ev.kind = "message" /\ ev.from = "dashboard" /\ IsPumpCmd(Msg)
    /\ lastCmd.prev = Msg.value /\ lastCmd.dup /\ lastCmd.esp /\ ~lastCmd.forwarded
    /\ lastFwd = Msg.value /\ idleTicks = 0
    /\ out = NoOut

\* A pump OFF command arrives right after a pump ON command, a producer being
\* connected for both.
OffAfterOn ==
    /\ PumpArrives /\ Cmd.value = "OFF" /\ lastCmd.value = "ON"
    /\ lastCmd.esp /\ EspWritable

\* C6 as stated: pump ON followed by pump OFF is always forwarded as two
\* commands, however little time separates them (here: no heartbeat tick has
\* fired since the last forward).
C6_BothForwarded ==
    [][OffAfterOn /\ idleTicks = 0 => lastCmd.forwarded /\ ForwardsNow]_vars

\* C6 amended: the OFF command is always forwarded; the ON command before it
\* was forwarded exactly when its value differed from lastPumpCommand.
C6_OffForwarded ==
    [][OffAfterOn => ForwardsNow /\ lastPumpCommand' = "OFF"
                     /\ (lastCmd.forwarded <=> ~lastCmd.dup)]_vars

\* OFF has just been forwarded right after a forwarded ON, no tick between.
C6_Witness ==
    /\ ev.kind = "message" /\ ev.from = "dashboard" /\ IsPumpCmd(Msg)
    /\ Msg.value = "OFF" /\ lastCmd.prev = "ON" /\ lastCmd.forwarded
    /\ idleTicks = 0
    /\ EspWritable /\ out[espSocket] = <<JSONstringify(Msg)>>

\* A dashboard has just sent a command while no producer was writable.
CmdWithoutProducer ==
    /\ ev.kind = "message" /\ ev.from = "dashboard" /\ Msg.type = "cmd"
    /\ ~EspWritable

\* C7: every command sent while no producer is connected is answered with
\* the error message, sent to the sender only.
C7_ErrorWhenNoProducer ==
    CmdWithoutProducer => out = Send(ev.ws, JSONstringify(ErrorMsg))

Registered == ev.kind = "message" /\ Registers
Ack == Send(ev.ws, JSONstringify(AckMsg(Msg.role)))

\* C10 as stated: the relay assigns the role, stores the supplied id, or a
\* generated one when the message has none, and sends one ack to the sender.
C10_StoresSuppliedId ==
    Registered =>
        /\ role[ev.ws] = Msg.role
        /\ id[ev.ws] = IF Msg.id # Undef THEN Msg.id
                       ELSE IF Msg.role = "esp" THEN "esp1" ELSE id[ev.ws]
        /\ Msg.id = Undef /\ Msg.role = "dashboard" => id[ev.ws] \in GeneratedIds
        /\ out = Ack

\* C10 amended: the supplied id is stored when it is a non-empty string; an
\* absent or empty id is replaced by 'esp1' for a producer and by a generated
\* 'dash-N' for a consumer.
C10_RegisterAssigns ==
    Registered =>
        /\ role[ev.ws] = Msg.role
        /\ id[ev.ws] \in (IF Msg.id \notin {Undef, ""} THEN {Msg.id}
                          ELSE IF Msg.role = "esp" THEN {"esp1"} ELSE GeneratedIds)
        /\ out = Ack

\* A second connection has just registered with a supplied id while another
\* registered connection is open.
C10_Witness ==
    /\ Registered /\ Msg.id = "dev7" /\ id[ev.ws] = "dev7"
    /\ \E c \in Conns : c # ev.ws /\ Open(c) /\ role[c] # Undef /\ out[c] = <<>>

\* C11: a frame that is not JSON, from a connection in any role, is dropped:
\* nothing is sent to any connection, the roles, espSocket, dashboards,
\* lastPumpCommand and the last telemetry stay as they were, and the
\* connection stays open.
C11_MalformedDropped ==
    [][(ev'.kind = "message" /\ ev'.text = NotJSON)
       => /\ out' = NoOut
          /\ UNCHANGED <<role, espSocket, dashboards, lastPumpCommand, lastState>>
          /\ readyState'[ev'.ws] = "open"]_vars

\* The bridge accepts a line in this step; Sent is the object the line encodes.
LineAccepted == ev'.kind = "line" /\ ev'.text.fmt \notin {"blank", "raw"}
Sent == JSONparse(ev'.text)
Metadata == {"timestamp", "server_time", "data_count"}

\* C12 as stated: the payload every consumer is sent for a telemetry message
\* is the object the producer sent: no field added, removed or rewritten.
C12_PayloadIdentical ==
    [][LineAccepted =>
         \A c \in Conns : Open(c) => out'[c] = <<JSONstringify(Sent)>>]_vars

\* C12 amended: the payload every consumer is sent is the producer's object
\* with the three fields timestamp, server_time and data_count set by the
\* bridge (added, or written over the producer's field of that name); every
\* other field is the producer's, and none is removed.
C12_MetadataAdded ==
    [][LineAccepted =>
         \A c \in Conns : Open(c) =>
             /\ Len(out'[c]) = 1
             /\ LET got == JSONparse(out'[c][1])
                IN  /\ DOMAIN got = DOMAIN Sent \cup Metadata
                    /\ \A f \in DOMAIN Sent \ Metadata : got[f] = Sent[f]
                    /\ got.timestamp \in Clock /\ got.server_time \in Clock
                    /\ got.data_count = dataCount + 1]_vars

\* Two clients have just been sent a line whose own timestamp the bridge
\* replaced.
C12_Witness ==
    /\ ev.kind = "line" /\ ev.text.fmt = "padded"
    /\ JSONparse(ev.text).timestamp = "t0"
    /\ latestData.timestamp # "t0" /\ latestData.soil = "b"
    /\ \E c, d \in Conns :
         c # d /\ out[c] = <<JSONstringify(latestData)>> /\ out[d] = out[c]

Increasing(seq) == \A i, j \in DOMAIN seq : i < j => seq[i] < seq[j]

\* C13: the data_count the bridge assigns to an accepted line is greater than
\* that of every line accepted before it, and every client is sent the lines
\* in the order of their counts: what a client has received is increasing,
\* the copy of latestData sent on connection included.
C13_OrderedAndNumbered ==
    [][/\ LineAccepted => /\ latestData'.data_count > latestData.data_count
                           /\ dataCount' = latestData'.data_count
       /\ \A c \in Conns : Increasing(rx'[c])]_vars

\* A client that was sent one line on connecting has been sent the next two
\* as they were accepted.
C13_Witness ==
    /\ ev.kind = "line"
    /\ \E c \in Conns : Open(c) /\ rx[c] = <<1, 2, 3>> /\ out[c] = <<JSONstringify(latestData)>>
    /\ \E d \in Conns : Open(d) /\ rx[d] = <<2, 3>>

\* C14: a sensors frame from a producer is broadcast in the step that calls
\* fetch(), however many POSTs are unsettled, and the step in which a POST
\* settles (ok, not ok, or error) sends nothing and changes nothing else; a
\* POST that never settles holds up no handler.
C14_BroadcastIgnoresPost ==
    [][/\ (ev'.kind = "message" /\ ev'.from = "esp" /\ Cmd.type = "sensors")
          => /\ inflight' = inflight + 1
             /\ \A c \in Consumers : out'[c] = <<ev'.text>>
       /\ ev'.kind \in FetchOutcomes
          => /\ out' = NoOut
             /\ UNCHANGED <<readyState, role, relay, lastState>>]_vars

\* Consumers have just been sent a sensors frame while the POST of an earlier
\* frame was still unsettled.
C14_Witness ==
    /\ TelemetryArrived /\ Msg.type = "sensors"
    /\ inflight = MaxPosts
    /\ \E c, d \in Consumers : c # d /\ out[c] = <<ev.text>> /\ out[d] = <<ev.text>>

\* C15: in a broadcast every open member of dashboards is sent the frame
\* although another member is not writable, and a member that was not
\* writable during the broadcast is out of dashboards once its close event,
\* the next event, has been handled.
C15_FailingConsumerPruned ==
    [][/\ (ev'.kind = "message" /\ ev'.from = "esp" /\ ~(Cmd.type = "register"))
          => \A c \in dashboards : Open(c) => out'[c] = <<ev'.text>>
       /\ (TelemetryArrived /\ ev'.kind = "close" /\ ev'.ws \in dashboards)
          => ev'.ws \notin dashboards']_vars

\* C16: a frame is delivered to a consumer only if its sender is the current
\* producer, the connection espSocket refers to; while espSocket is null, or
\* from a superseded producer, nothing is delivered.
C16_OnlyCurrentProducer ==
    [][(ev'.kind = "message" /\ \E c \in Conns : out'[c] = <<ev'.text>>)
       => ev'.ws = espSocket]_vars

\* C17: once the close event of a connection has been handled the relay
\* holds no reference to it: it is neither espSocket nor in dashboards.
C17_NoReferenceAfterClose ==
    \A c \in Conns : readyState[c] = "closed" => espSocket # c /\ c \notin dashboards

\* A dashboard's command arrives while a producer is writable.
CmdArrives ==
    /\ ev'.kind = "message" /\ ev'.from = "dashboard" /\ Cmd.type = "cmd"
    /\ EspWritable

C19_ProducerSlotCleared ==
    [][/\ (ev.kind = "heartbeat" /\ espSocket \in ev.killed
           /\ ev'.kind = "close" /\ ev'.ws = espSocket)
          => espSocket' = NoConn
       /\ (PumpArrives /\ Changed(Cmd) /\ ~EspWritable)
          => out' = Send(ev'.ws, JSONstringify(ErrorMsg))]_vars

\* C20: the monitor terminates at a tick only connections that the tick
\* before pinged and that have sent no pong since; so a connection that
\* answers every ping, and one accepted since the last tick, stay open.
C20_OnlyUnansweredTerminated ==
    [][ev'.kind = "heartbeat" =>
         /\ ev'.killed \subseteq pinged
         /\ \A c \in Conns : Open(c) /\ c \notin pinged => readyState'[c] = "open"]_vars

\* A tick has just terminated one connection and pinged another, which had
\* answered the ping before or been accepted since the tick before.
C20_Witness ==
    /\ ev.kind = "heartbeat" /\ ev.killed # {}
    /\ \E d \in Conns \ ev.killed : Open(d) /\ d \in pinged /\ ~isAlive[d]

\* C21: latestData is null until a line is accepted and from then on holds
\* the line accepted last, with its count; a line that is blank or fails to
\* parse, a client's message, disconnect or close leave it as it is; and a
\* client that connects is sent it.
C21_LatestDataIsLastAccepted ==
    [][/\ LineAccepted => /\ \A f \in DOMAIN Sent \ Metadata : latestData'[f] = Sent[f]
                           /\ latestData'.data_count = dataCount + 1
       /\ ~LineAccepted => latestData' = latestData
       /\ (latestData' = NoData) <=> (dataCount' = 0)
       /\ (ev'.kind = "connection" /\ latestData # NoData)
             => out'[ev'.ws] = <<JSONstringify(latestData)>>]_vars

\* The last client's close has just been handled and latestData still holds
\* the second accepted line.
C21_Witness ==
    /\ ev.kind = "close"
    /\ latestData # NoData /\ latestData.data_count = 2 /\ dataCount = 2
    /\ \A c \in Conns : ~Open(c)

\* This step's message is a registration in one of the two roles.
RegistersNow == Cmd.type = "register" /\ Cmd.role \in {"esp", "dashboard"}
\* c became producer by a sensors message and has sent no registration:
\* both registration branches set ws.id, the implicit one does not.
ImplicitProducer(c) == role[c] = "esp" /\ id[c] = Undef

\* C22 as stated: a sensors message from an unclassified connection makes it
\* the current producer, in place of any other, and every later message from
\* it is broadcast to the consumers.
C22_ImplicitProducerAlwaysBroadcast ==
    [][/\ (ev'.kind = "message" /\ ev'.from = Undef /\ Cmd.type = "sensors")
          => espSocket' = ev'.ws /\ role'[ev'.ws] = "esp"
       /\ (ev'.kind = "message" /\ ImplicitProducer(ev'.ws))
          => \A c \in Consumers : out'[c] = <<ev'.text>>]_vars

\* C22 amended: a sensors message from an unclassified connection makes it
\* the current producer, in place of any other, and every later message from
\* it is broadcast to the consumers until it sends a registration as esp or
\* dashboard; that message is answered with the ack and is not broadcast.
C22_ImplicitProducerBroadcast ==
    [][/\ (ev'.kind = "message" /\ ev'.from = Undef /\ Cmd.type = "sensors")
          => espSocket' = ev'.ws /\ role'[ev'.ws] = "esp"
       /\ (ev'.kind = "message" /\ ImplicitProducer(ev'.ws) /\ ~RegistersNow)
          => \A c \in Consumers : out'[c] = <<ev'.text>>
       /\ (ev'.kind = "message" /\ ImplicitProducer(ev'.ws) /\ RegistersNow)
          => out' = Send(ev'.ws, JSONstringify(AckMsg(Cmd.role)))]_vars

\* A connection that became producer without registering, in place of a
\* registered producer that is still open, has just had a frame broadcast.
C22_Witness ==
    /\ TelemetryArrived /\ ImplicitProducer(ev.ws) /\ espSocket = ev.ws
    /\ \E p \in Producers : p # ev.ws /\ id[p] = "esp1"
    /\ \E c \in Consumers : out[c] = <<ev.text>>

\* This step handles a sensors message from a connection whose role is 'esp'.
SensorsFromEsp == ev'.kind = "message" /\ ev'.from = "esp" /\ Cmd.type = "sensors"

C24_OnlyToProducer ==
    [][(PumpArrives /\ Changed(Cmd) /\ EspWritable)
       => /\ out' = Send(espSocket, JSONstringify(Cmd))
          /\ role[espSocket] = "esp" /\ espSocket \notin dashboards]_vars

\* C25: no step sends a connection more than one frame, so no consumer gets
\* a telemetry frame twice, and a registration as dashboard by a connection
\* that is already in dashboards leaves dashboards as it is.
C25_AtMostOneCopy ==
    [][ev'.kind = "message" =>
         /\ \A c \in Conns : Len(out'[c]) <= 1
         /\ (RegistersNow /\ Cmd.role = "dashboard" /\ ev'.ws \in dashboards)
            => dashboards' = dashboards]_vars

\* A consumer that sent two registrations (as esp, then as dashboard) has
\* just been sent one copy of a sensors frame of another producer.
C25_Witness ==
    /\ TelemetryArrived /\ Msg.type = "sensors"
    /\ espSocket # NoConn /\ espSocket # ev.ws
    /\ role[espSocket] = "dashboard" /\ Open(espSocket)
    /\ out[espSocket] = <<ev.text>>

\* C26: a connection is in dashboards exactly when it is open with role
\* 'dashboard', and espSocket is null or an open connection of role 'esp'.
C26_RegistryConsistent ==
    /\ \A c \in Conns : c \in dashboards <=> (Open(c) /\ role[c] = "dashboard")
    /\ espSocket = NoConn \/ (Open(espSocket) /\ role[espSocket] = "esp")

\* C27: only a pump command changes lastPumpCommand, so no disconnect, close
\* or registration clears it, and a pump command whose value equals it is
\* dropped: nothing is sent, to a new producer or anyone else.
C27_NeverCleared ==
    [][/\ ~PumpArrives => lastPumpCommand' = lastPumpCommand
       /\ (PumpArrives /\ Cmd.value = lastPumpCommand) => DropsNow]_vars

\* A connection that never had a role has just registered as producer, after
\* another connection closed, and lastPumpCommand still holds the value that
\* was forwarded to the producer before it.
C27_Witness ==
    /\ Registered /\ Msg.role = "esp" /\ ev.from = Undef /\ espSocket = ev.ws
    /\ lastFwd = "ON" /\ lastPumpCommand = "ON"
    /\ \E c \in Conns : readyState[c] = "closed"
    /\ \E d \in Consumers : TRUE

\* C28: a connection of role 'esp' is sent nothing but the ack of its own
\* registration and pump commands that arrived from a connection of role
\* 'dashboard'; no telemetry comes back to it.
C28_ProducerGetsAckAndCommands ==
    [][\A c \in Conns :
         (role'[c] = "esp" /\ out'[c] # <<>>)
         => \/ /\ ev'.ws = c /\ RegistersNow /\ Cmd.role = "esp"
               /\ out'[c] = <<JSONstringify(AckMsg("esp"))>>
            \/ /\ ev'.from = "dashboard" /\ IsPumpCmd(Cmd)
               /\ out'[c] = <<JSONstringify(Cmd)>>]_vars

\* C29: the sensors message by which an unclassified connection becomes the
\* producer is sent to nobody, starts no POST and is not kept as telemetry.
C29_ImplicitRegistrationSilent ==
    [][(ev'.kind = "message" /\ ev'.from = Undef /\ Cmd.type = "sensors")
       => out' = NoOut /\ inflight' = inflight /\ lastState' = lastState]_vars

\* An unclassified connection has just become the producer by a sensors
\* message while a consumer is open: the consumer was sent nothing.
C29_Witness ==
    /\ ev.kind = "message" /\ ev.from = Undef /\ Msg.type = "sensors"
    /\ espSocket = ev.ws /\ role[ev.ws] = "esp"
    /\ out = NoOut /\ inflight = 0
    /\ \E c \in Consumers : TRUE

\* C30: a frame of the hook's sendPump, sent on a connection registered as
\* dashboard while another connection, of role 'esp', is the writable
\* producer, with a value other than the one last forwarded, makes the relay
\* write to the producer.
C30_HookCommandReachesProducer ==
    [][(ev'.kind = "message" /\ ev'.from = "dashboard"
        /\ Cmd.pump_cmd \in {"ON", "OFF"} /\ Cmd.pump_cmd # lastFwd
        /\ EspWritable /\ role[espSocket] = "esp" /\ espSocket # ev'.ws)
       => out'[espSocket] # <<>>]_vars

====
